---------------------------- MODULE Spec2Model ----------------------------
(***************************************************************************)
(* The recording-session state machines of the two recorder components:    *)
(* AudioRecorderApp (src/unnamed/part_000) and Recorder                    *)
(* (src/unnamed/part_001).  One of the two is mounted; the wavesurfer      *)
(* record plugin and the browser's timers are the environment.             *)
(*                                                                         *)
(* Times are integers in milliseconds.  AudioRecorderApp's duration is     *)
(* time / 1000 seconds, a real: the variable duration holds it in          *)
(* milliseconds and the comparison with maxDuration is scaled by MsPerSec. *)
(* Recorder's time is Math.floor(ms / 1000), whole seconds.                *)
(***************************************************************************)
EXTENDS Integers, Sequences, FiniteSets

\* ---- program constants
maxDuration == 30
MsPerSec == 1000

\* ---- bounds of the model
TickMs == 50
JumpMs == 15000
FineTicks == 1
MaxCaptureMs == 30100
MaxTimeouts == 2
MaxPendingStarts == 2
MaxErrors == 1
MaxPlayback == 1
RecMaxDuration == 3
MaxTime == 3
MaxRecordEnds == 1

\* Recorder's maxDuration prop when absent: the code tests only its truthiness
\* (!maxDuration, maxDuration && ...), under which null and 0 are alike
NoLimit == 0

Null == "null"
LIMITED == "limited"
UNLIMITED == "unlimited"
MODES == {LIMITED, UNLIMITED}

VARIABLES
    mounted,        \* which component App.jsx renders
    alive,          \* it has not been unmounted
    \* AudioRecorderApp: useState / useRef
    recorderState, duration, currentTime, mode, recordedUrl, isPlaying,
    pendingStarts,  \* startRecording calls awaiting the current plugin
    orphanStarts,   \* startRecording calls awaiting a destroyed plugin
    timeouts,       \* pending setTimeout(..., 100) callbacks of stopRecording
    wsPairs,        \* the WaveSurfer/record-plugin pairs not destroyed, by age
    wsRef,          \* the age of the pair wavesurferRef/recordPluginRef name
    wsPeak,         \* most pairs not destroyed at one time in the last step
    \* the record plugin (environment)
    capture,        \* "inactive" | "recording" | "paused"
    capMs,          \* elapsed milliseconds the plugin reports
    recordEnds,     \* record-end notifications in flight
    \* Recorder: props / useState / useRef
    r_maxDuration, r_mode, r_blob, r_time, r_playbackTime,
    r_timerLive,    \* the interval timerRef.current names is running
    r_leakedTimers, \* running intervals timerRef no longer names
    r_listeners,    \* "interaction" listeners registered on ws
    \* history
    last,           \* the last event and the session state it started from
    stopCalls,      \* recordPlugin.stopRecording() calls since the last start
    errors,         \* console.error calls
    untouched       \* no user command since the recording started

appVars == <<recorderState, duration, currentTime, mode, recordedUrl, isPlaying,
             pendingStarts, orphanStarts, timeouts>>
pluginVars == <<capture, capMs, recordEnds>>
recVars == <<r_mode, r_blob, r_time, r_playbackTime, r_timerLive,
             r_leakedTimers, r_listeners>>
histVars == <<last, stopCalls, errors, untouched>>
wsVars == <<wsPairs, wsRef, wsPeak>>
vars == <<mounted, alive, r_maxDuration, appVars, wsVars, pluginVars, recVars,
          histVars>>

App == mounted = "AudioRecorderApp" /\ alive
Rec == mounted = "Recorder" /\ alive

\* a step of one component leaves the other's state alone
RecUntouched == UNCHANGED <<mounted, alive, r_maxDuration, recVars>>
AppUntouched == UNCHANGED <<mounted, alive, r_maxDuration, appVars, wsVars>>

Init ==
    /\ mounted \in {"AudioRecorderApp", "Recorder"}
    /\ alive = TRUE
    /\ recorderState = "idle"
    /\ duration = 0
    /\ currentTime = 0
    /\ mode = LIMITED
    /\ recordedUrl = Null
    /\ isPlaying = FALSE
    /\ pendingStarts = 0
    /\ orphanStarts = 0
    /\ timeouts = 0
    /\ wsPairs = IF mounted = "AudioRecorderApp" THEN {0} ELSE {}
    /\ wsRef = 0
    /\ wsPeak = Cardinality(wsPairs)
    /\ capture = "inactive"
    /\ capMs = 0
    /\ recordEnds = 0
    /\ r_maxDuration \in IF mounted = "Recorder" THEN {NoLimit, RecMaxDuration} ELSE {NoLimit}
    /\ r_mode = "idle"
    /\ r_blob = Null
    /\ r_time = 0
    /\ r_playbackTime = 0
    /\ r_timerLive = FALSE
    /\ r_leakedTimers = 0
    /\ r_listeners = 0
    /\ last = [op |-> "mount", from |-> "idle"]
    /\ stopCalls = 0
    /\ errors = 0
    /\ untouched = FALSE

\* ---- the record plugin's commands, as the components use them
PluginPause(c) == IF c = "recording" THEN "paused" ELSE c
PluginResume(c) == IF c = "paused" THEN "recording" ELSE c
PluginActive(c) == c \in {"recording", "paused"}

\* WaveSurfer pairs are named by age: 0 is the pair constructed last
\* ws.destroy(): also destroys the registered record plugin
destroy(ps, ref) == ps \ {ref}
\* WaveSurfer.create + registerPlugin(RecordPlugin.create)
create(ps) == {a + 1 : a \in ps} \cup {0}
Largest(ns) == CHOOSE n \in ns : \A k \in ns : k <= n

\* a history counter that tells none, one and several apart
Bump(n) == IF n < 2 THEN n + 1 ELSE n

\* The elapsed times successive record-progress notifications carry are a
\* sample of the capture's clock: one notification period (TickMs) on, for
\* the first FineTicks periods after each multiple of JumpMs, or JumpMs on
\* (the notifications in between change nothing but the displayed time).
ProgressSteps(ms) ==
    {d \in {TickMs, JumpMs} :
        /\ ms + d <= MaxCaptureMs
        /\ d = TickMs => (ms % JumpMs) < FineTicks * TickMs}


\* from: the session state a user command was given in ("-" for an event)
Note(op, from) == last' = [op |-> op, from |-> from]

(***************************************************************************)
(* AudioRecorderApp                                                        *)
(***************************************************************************)

\* record-progress handler: currentSecs >= maxDuration, in limited mode
AutoStopDue(m, ms) == m = LIMITED /\ ms >= maxDuration * MsPerSec

\* stopRecording: queues the deferred finalize (setTimeout, 100 ms)
stopRecording(t) == t + 1

\* the deferred body of stopRecording; the timeout is never cleared, so it
\* also runs after an unmount, when the setter has no component to update
StopTimeout ==
    /\ mounted = "AudioRecorderApp"
    /\ RecUntouched
    /\ UNCHANGED wsVars
    /\ timeouts > 0
    /\ PluginActive(capture) => recordEnds < MaxRecordEnds
    /\ timeouts' = timeouts - 1
    /\ stopCalls' = Bump(stopCalls)
    /\ capture' = "inactive"
    /\ recordEnds' = IF PluginActive(capture) THEN recordEnds + 1 ELSE recordEnds
    /\ recorderState' = IF alive THEN "finished" ELSE recorderState
    /\ Note("stopTimeout", "-")
    /\ UNCHANGED <<duration, currentTime, mode, recordedUrl, isPlaying,
                   pendingStarts, orphanStarts, capMs, errors, untouched>>

\* the record button (rendered while idle): startRecording up to its await
StartAllowed ==
    /\ App
    /\ recorderState = "idle"
    /\ pendingStarts + orphanStarts < MaxPendingStarts

ClickStart ==
    /\ StartAllowed
    /\ RecUntouched
    /\ UNCHANGED wsVars
    /\ pendingStarts' = pendingStarts + 1
    /\ Note("startRecording", recorderState)
    /\ UNCHANGED <<recorderState, duration, currentTime, mode, recordedUrl,
                   isPlaying, orphanStarts, timeouts, pluginVars,
                   stopCalls, errors, untouched>>

\* startRecording after the await: the three setters
startResolved ==
    /\ recorderState' = "recording"
    /\ recordedUrl' = Null
    /\ duration' = 0

\* (mutant) the three setters run although the plugin refused
startRejected_SettersRun ==
    /\ errors' = errors + 1
    /\ startResolved

\* startRecording's catch: console.error, nothing else
startRejected ==
    /\ errors' = errors + 1
    /\ UNCHANGED <<recorderState, recordedUrl, duration>>

\* the plugin grants the start issued on the current plugin
StartResolved ==
    /\ App
    /\ RecUntouched
    /\ UNCHANGED wsVars
    /\ pendingStarts > 0
    /\ pendingStarts' = pendingStarts - 1
    /\ capture' = "recording"
    /\ capMs' = 0
    /\ startResolved
    /\ stopCalls' = 0
    /\ untouched' = TRUE
    /\ Note("startResolved", "-")
    /\ UNCHANGED <<currentTime, mode, isPlaying, orphanStarts, timeouts,
                   recordEnds, errors>>

\* the plugin refuses it (permission denied, no device)
StartRejected ==
    /\ App
    /\ RecUntouched
    /\ UNCHANGED wsVars
    /\ pendingStarts > 0
    /\ errors < MaxErrors
    /\ pendingStarts' = pendingStarts - 1
    /\ startRejected
    /\ Note("startRejected", "-")
    /\ UNCHANGED <<currentTime, mode, isPlaying, orphanStarts, timeouts,
                   pluginVars, stopCalls, untouched>>

\* a start issued on a plugin that a mode switch has destroyed since
OrphanStartResolved ==
    /\ App
    /\ RecUntouched
    /\ UNCHANGED wsVars
    /\ orphanStarts > 0
    /\ orphanStarts' = orphanStarts - 1
    /\ startResolved
    /\ stopCalls' = 0
    /\ untouched' = TRUE
    /\ Note("orphanStartResolved", "-")
    /\ UNCHANGED <<currentTime, mode, isPlaying, pendingStarts, timeouts,
                   pluginVars, errors>>

OrphanStartRejected ==
    /\ App
    /\ RecUntouched
    /\ UNCHANGED wsVars
    /\ orphanStarts > 0
    /\ errors < MaxErrors
    /\ orphanStarts' = orphanStarts - 1
    /\ startRejected
    /\ Note("orphanStartRejected", "-")
    /\ UNCHANGED <<currentTime, mode, isPlaying, pendingStarts, timeouts,
                   pluginVars, stopCalls, untouched>>

\* record.on('record-progress')
RecordProgress ==
    /\ App
    /\ RecUntouched
    /\ UNCHANGED wsVars
    /\ capture = "recording"
    /\ \E d \in ProgressSteps(capMs) : capMs' = capMs + d
    /\ duration' = capMs'
    /\ IF AutoStopDue(mode, capMs')
         THEN timeouts < MaxTimeouts /\ timeouts' = stopRecording(timeouts)
         ELSE timeouts' = timeouts
    /\ Note("record-progress", "-")
    /\ UNCHANGED <<recorderState, currentTime, mode, recordedUrl, isPlaying,
                   pendingStarts, orphanStarts, capture, recordEnds,
                   stopCalls, errors, untouched>>

\* record.on('record-end')
RecordEnd ==
    /\ App
    /\ RecUntouched
    /\ UNCHANGED wsVars
    /\ recordEnds > 0
    /\ recordEnds' = recordEnds - 1
    /\ recordedUrl' = "url"
    /\ Note("record-end", "-")
    /\ UNCHANGED <<recorderState, duration, currentTime, mode, isPlaying,
                   pendingStarts, orphanStarts, timeouts, capture, capMs,
                   stopCalls, errors, untouched>>

\* the pause button (rendered while recording)
ClickPause ==
    /\ App
    /\ RecUntouched
    /\ UNCHANGED wsVars
    /\ recorderState = "recording"
    /\ capture' = PluginPause(capture)
    /\ recorderState' = "paused"
    /\ untouched' = FALSE
    /\ Note("pauseRecording", recorderState)
    /\ UNCHANGED <<duration, currentTime, mode, recordedUrl, isPlaying,
                   pendingStarts, orphanStarts, timeouts, capMs, recordEnds,
                   stopCalls, errors>>

\* the resume button (rendered while paused)
ClickResume ==
    /\ App
    /\ RecUntouched
    /\ UNCHANGED wsVars
    /\ recorderState = "paused"
    /\ capture' = PluginResume(capture)
    /\ recorderState' = "recording"
    /\ untouched' = FALSE
    /\ Note("resumeRecording", recorderState)
    /\ UNCHANGED <<duration, currentTime, mode, recordedUrl, isPlaying,
                   pendingStarts, orphanStarts, timeouts, capMs, recordEnds,
                   stopCalls, errors>>

\* the stop button is rendered only while recording; paused and finished
\* render a spacer in its place
StopButtonRendered == recorderState = "recording"

\* the stop button (rendered while recording)
ClickStop ==
    /\ App
    /\ RecUntouched
    /\ UNCHANGED wsVars
    /\ StopButtonRendered
    /\ timeouts < MaxTimeouts
    /\ timeouts' = stopRecording(timeouts)
    /\ untouched' = FALSE
    /\ Note("stopRecording", recorderState)
    /\ UNCHANGED <<recorderState, duration, currentTime, mode, recordedUrl,
                   isPlaying, pendingStarts, orphanStarts, pluginVars,
                   stopCalls, errors>>

\* (mutant) setDuration(0) forgotten
deleteRecording_KeepsDuration ==
    /\ recorderState' = "idle"
    /\ currentTime' = 0
    /\ recordedUrl' = Null
    /\ isPlaying' = FALSE
    /\ UNCHANGED duration

\* deleteRecording: ws.empty() and the five setters
deleteRecording ==
    /\ recorderState' = "idle"
    /\ duration' = 0
    /\ currentTime' = 0
    /\ recordedUrl' = Null
    /\ isPlaying' = FALSE

\* the delete button (rendered while recording, paused or finished)
ClickDelete ==
    /\ App
    /\ RecUntouched
    /\ UNCHANGED wsVars
    /\ recorderState \in {"paused", "recording", "finished"}
    /\ deleteRecording
    /\ untouched' = FALSE
    /\ Note("deleteRecording", recorderState)
    /\ UNCHANGED <<mode, pendingStarts, orphanStarts, timeouts, pluginVars,
                   stopCalls, errors>>

\* a mode radio's onChange, then the [mode] effect: the cleanup destroys the
\* old WaveSurfer and its record plugin, the effect body creates a new pair
\* (mutant) the effect constructs a pair without tearing the previous one down
InitializeWaveSurfer_NoTeardown ==
    /\ wsPairs' = create(wsPairs)
    /\ wsRef' = 0
    /\ wsPeak' = Cardinality(wsPairs')

\* useEffect [mode]: the cleanup of the previous run destroys the pair the
\* ref names; the body destroys it again, constructs a pair and stores it
InitializeWaveSurfer ==
    LET cleaned == destroy(wsPairs, wsRef)
        emptied == destroy(cleaned, wsRef)
        built == create(emptied)
    IN  /\ wsPairs' = built
        /\ wsRef' = 0
        /\ wsPeak' = Largest({Cardinality(cleaned), Cardinality(emptied),
                              Cardinality(built)})

ModeSwitch ==
    /\ App
    /\ RecUntouched
    /\ deleteRecording
    /\ mode' = IF mode = LIMITED THEN UNLIMITED ELSE LIMITED
    /\ InitializeWaveSurfer
    /\ capture' = "inactive"
    /\ capMs' = 0
    /\ recordEnds' = 0
    /\ orphanStarts' = orphanStarts + pendingStarts
    /\ pendingStarts' = 0
    /\ untouched' = FALSE
    /\ Note("modeSwitch", recorderState)
    /\ UNCHANGED <<timeouts, stopCalls, errors>>

\* the play button (rendered while finished or paused): ws.playPause(), then
\* the 'play' / 'pause' event
TogglePlayback ==
    /\ App
    /\ RecUntouched
    /\ UNCHANGED wsVars
    /\ recorderState \in {"finished", "paused"}
    /\ isPlaying' = ~isPlaying
    /\ Note("togglePlayback", recorderState)
    /\ UNCHANGED <<recorderState, duration, currentTime, mode, recordedUrl,
                   pendingStarts, orphanStarts, timeouts, pluginVars,
                   stopCalls, errors, untouched>>

\* ws.on('timeupdate')
TimeUpdate ==
    /\ App
    /\ RecUntouched
    /\ UNCHANGED wsVars
    /\ isPlaying
    /\ currentTime < MaxPlayback
    /\ currentTime' = currentTime + 1
    /\ Note("timeupdate", "-")
    /\ UNCHANGED <<recorderState, duration, mode, recordedUrl, isPlaying,
                   pendingStarts, orphanStarts, timeouts, pluginVars,
                   stopCalls, errors, untouched>>

\* ws.on('finish')
PlaybackFinish ==
    /\ App
    /\ RecUntouched
    /\ UNCHANGED wsVars
    /\ isPlaying
    /\ isPlaying' = FALSE
    /\ Note("finish", "-")
    /\ UNCHANGED <<recorderState, duration, currentTime, mode, recordedUrl,
                   pendingStarts, orphanStarts, timeouts, pluginVars,
                   stopCalls, errors, untouched>>

\* the [mode] effect's cleanup at unmount: wavesurferRef.current.destroy();
\* the component's state is discarded, pending timeouts stay queued
Unmount ==
    /\ App
    /\ alive' = FALSE
    /\ recorderState' = "idle"
    /\ duration' = 0
    /\ currentTime' = 0
    /\ recordedUrl' = Null
    /\ isPlaying' = FALSE
    /\ pendingStarts' = 0
    /\ orphanStarts' = 0
    /\ capture' = "inactive"
    /\ capMs' = 0
    /\ recordEnds' = 0
    /\ untouched' = FALSE
    /\ wsPairs' = destroy(wsPairs, wsRef)
    /\ wsPeak' = Cardinality(wsPairs)
    /\ Note("unmount", recorderState)
    /\ UNCHANGED <<mounted, r_maxDuration, recVars, mode, timeouts, wsRef,
                   stopCalls, errors>>

(***************************************************************************)
(* Recorder                                                                *)
(***************************************************************************)

\* startTimer: timerRef.current = setInterval(...), the old id is overwritten
startTimer ==
    /\ r_leakedTimers' = IF r_timerLive THEN r_leakedTimers + 1 ELSE r_leakedTimers
    /\ r_timerLive' = TRUE

\* (mutant) stopTimer that leaves the interval running
stopTimer_KeepsInterval ==
    /\ UNCHANGED <<r_timerLive, r_leakedTimers>>

\* stopTimer: clearInterval(timerRef.current)
stopTimer ==
    /\ r_timerLive' = FALSE
    /\ UNCHANGED r_leakedTimers

\* if (!maxDuration) startTimer()
startTimerUnlessLimited ==
    IF r_maxDuration = NoLimit
      THEN startTimer
      ELSE UNCHANGED <<r_timerLive, r_leakedTimers>>

\* recordRef.current.stopRecording(): ends an active capture, which then
\* delivers record-end
PluginStop ==
    /\ PluginActive(capture) => recordEnds < MaxRecordEnds
    /\ capture' = "inactive"
    /\ recordEnds' = IF PluginActive(capture) THEN recordEnds + 1 ELSE recordEnds
    /\ stopCalls' = Bump(stopCalls)

\* the record button (rendered while idle): startRecording; the plugin's
\* promise is neither awaited nor caught, granted tells how it settles
R_ClickStart ==
    /\ Rec
    /\ AppUntouched
    /\ r_mode = "idle"
    /\ \E granted \in BOOLEAN :
         /\ granted \/ errors < MaxErrors
         /\ r_mode' = "recording"
         /\ r_time' = 0
         /\ capture' = IF granted THEN "recording" ELSE capture
         /\ capMs' = IF granted THEN 0 ELSE capMs
         /\ errors' = IF granted THEN errors ELSE errors + 1
         /\ startTimerUnlessLimited
         /\ Note(IF granted THEN "startRecording" ELSE "startRecordingFailed", r_mode)
    /\ stopCalls' = 0
    /\ untouched' = TRUE
    /\ UNCHANGED <<r_blob, r_playbackTime, r_listeners, recordEnds>>

\* one firing of a running setInterval callback: setTime(t => t + 1); after
\* an unmount the interval still fires and the setter updates nothing
R_TimerTick ==
    /\ mounted = "Recorder"
    /\ AppUntouched
    /\ r_timerLive \/ r_leakedTimers > 0
    /\ alive => r_time < MaxTime
    /\ r_time' = IF alive THEN r_time + 1 ELSE r_time
    /\ IF alive /\ r_maxDuration # NoLimit /\ r_time' >= r_maxDuration
         THEN PluginStop
         ELSE UNCHANGED <<capture, recordEnds, stopCalls>>
    /\ Note("tick", "-")
    /\ UNCHANGED <<r_mode, r_blob, r_playbackTime, r_timerLive, r_leakedTimers,
                   r_listeners, capMs, errors, untouched>>

\* record.on("record-progress")
R_RecordProgress ==
    /\ Rec
    /\ AppUntouched
    /\ capture = "recording"
    /\ \E d \in ProgressSteps(capMs) : capMs' = capMs + d
    /\ r_time' = capMs' \div MsPerSec
    /\ Note("record-progress", "-")
    /\ UNCHANGED <<r_mode, r_blob, r_playbackTime, r_timerLive, r_leakedTimers,
                   r_listeners, capture, recordEnds, stopCalls, errors, untouched>>

\* (mutant) stopTimer() forgotten in the record-end handler
R_RecordEnd_KeepsTimer ==
    /\ Rec
    /\ AppUntouched
    /\ recordEnds > 0
    /\ recordEnds' = recordEnds - 1
    /\ r_blob' = "blob"
    /\ r_mode' = "stopped"
    /\ r_listeners' = Bump(r_listeners)
    /\ Note("record-end", "-")
    /\ UNCHANGED <<r_time, r_playbackTime, r_timerLive, r_leakedTimers, capture,
                   capMs, stopCalls, errors, untouched>>

\* record.on("record-end")
R_RecordEnd ==
    /\ Rec
    /\ AppUntouched
    /\ recordEnds > 0
    /\ recordEnds' = recordEnds - 1
    /\ r_blob' = "blob"
    /\ r_mode' = "stopped"
    /\ stopTimer
    /\ r_listeners' = Bump(r_listeners)
    /\ Note("record-end", "-")
    /\ UNCHANGED <<r_time, r_playbackTime, capture, capMs, stopCalls, errors,
                   untouched>>

\* (mutant) pauseRecording without stopTimer()
R_ClickPause_KeepsTimer ==
    /\ Rec
    /\ AppUntouched
    /\ r_mode = "recording"
    /\ capture' = PluginPause(capture)
    /\ r_mode' = "paused"
    /\ untouched' = FALSE
    /\ Note("pauseRecording", r_mode)
    /\ UNCHANGED <<r_blob, r_time, r_playbackTime, r_timerLive, r_leakedTimers,
                   r_listeners, capMs, recordEnds, stopCalls, errors>>

\* the pause button (rendered while recording)
R_ClickPause ==
    /\ Rec
    /\ AppUntouched
    /\ r_mode = "recording"
    /\ capture' = PluginPause(capture)
    /\ stopTimer
    /\ r_mode' = "paused"
    /\ untouched' = FALSE
    /\ Note("pauseRecording", r_mode)
    /\ UNCHANGED <<r_blob, r_time, r_playbackTime, r_listeners, capMs,
                   recordEnds, stopCalls, errors>>

\* the resume button (rendered while paused)
R_ClickResume ==
    /\ Rec
    /\ AppUntouched
    /\ r_mode = "paused"
    /\ capture' = PluginResume(capture)
    /\ startTimerUnlessLimited
    /\ r_mode' = "recording"
    /\ untouched' = FALSE
    /\ Note("resumeRecording", r_mode)
    /\ UNCHANGED <<r_blob, r_time, r_playbackTime, r_listeners, capMs,
                   recordEnds, stopCalls, errors>>

\* the stop button (rendered while recording or paused)
R_ClickStop ==
    /\ Rec
    /\ AppUntouched
    /\ r_mode \in {"recording", "paused"}
    /\ ~(r_mode # "recording" /\ r_mode # "paused")
    /\ PluginStop
    /\ untouched' = FALSE
    /\ Note("stopRecording", r_mode)
    /\ UNCHANGED <<recVars, capMs, errors>>

\* (mutant) setBlob(null) forgotten
restart_KeepsBlob ==
    /\ stopTimer
    /\ r_time' = 0
    /\ r_playbackTime' = 0
    /\ r_mode' = "idle"
    /\ UNCHANGED r_blob

\* restart
restart ==
    /\ stopTimer
    /\ r_time' = 0
    /\ r_playbackTime' = 0
    /\ r_blob' = Null
    /\ r_mode' = "idle"

\* the restart buttons (rendered while recording, paused, stopped or playing)
R_ClickRestart ==
    /\ Rec
    /\ AppUntouched
    /\ r_mode \in {"recording", "paused", "stopped", "playing"}
    /\ restart
    /\ untouched' = FALSE
    /\ Note("restart", r_mode)
    /\ UNCHANGED <<r_listeners, pluginVars, stopCalls, errors>>

\* the play button (rendered while stopped)
R_ClickPlay ==
    /\ Rec
    /\ AppUntouched
    /\ r_mode = "stopped"
    /\ r_mode' = "playing"
    /\ Note("play", r_mode)
    /\ UNCHANGED <<r_blob, r_time, r_playbackTime, r_timerLive, r_leakedTimers,
                   r_listeners, pluginVars, stopCalls, errors, untouched>>

\* the pause-playback button (rendered while playing)
R_ClickPausePlayback ==
    /\ Rec
    /\ AppUntouched
    /\ r_mode = "playing"
    /\ r_mode' = "stopped"
    /\ Note("pause", r_mode)
    /\ UNCHANGED <<r_blob, r_time, r_playbackTime, r_timerLive, r_leakedTimers,
                   r_listeners, pluginVars, stopCalls, errors, untouched>>

\* ws.on("interaction"), registered by record-end; the [mode] effect lets
\* the waveform interact only while stopped or playing
R_Interaction ==
    /\ Rec
    /\ AppUntouched
    /\ r_mode \in {"stopped", "playing"}
    /\ r_listeners > 0
    /\ r_mode' = "playing"
    /\ Note("interaction", "-")
    /\ UNCHANGED <<r_blob, r_time, r_playbackTime, r_timerLive, r_leakedTimers,
                   r_listeners, pluginVars, stopCalls, errors, untouched>>

\* ws.on("audioprocess")
R_AudioProcess ==
    /\ Rec
    /\ AppUntouched
    /\ r_mode = "playing"
    /\ r_playbackTime < MaxPlayback
    /\ r_playbackTime' = r_playbackTime + 1
    /\ Note("audioprocess", "-")
    /\ UNCHANGED <<r_mode, r_blob, r_time, r_timerLive, r_leakedTimers,
                   r_listeners, pluginVars, stopCalls, errors, untouched>>

\* ws.on("finish")
R_Finish ==
    /\ Rec
    /\ AppUntouched
    /\ r_mode = "playing"
    /\ r_mode' = "stopped"
    /\ r_playbackTime' = 0
    /\ Note("finish", "-")
    /\ UNCHANGED <<r_blob, r_time, r_timerLive, r_leakedTimers, r_listeners,
                   pluginVars, stopCalls, errors, untouched>>

\* the first effect's cleanup at unmount: ws.destroy(); the component's state
\* is discarded, a running interval is not cleared
R_Unmount ==
    /\ Rec
    /\ alive' = FALSE
    /\ r_mode' = "idle"
    /\ r_blob' = Null
    /\ r_time' = 0
    /\ r_playbackTime' = 0
    /\ r_listeners' = 0
    /\ capture' = "inactive"
    /\ capMs' = 0
    /\ recordEnds' = 0
    /\ untouched' = FALSE
    /\ Note("unmount", r_mode)
    /\ UNCHANGED <<mounted, r_maxDuration, appVars, wsVars, r_timerLive,
                   r_leakedTimers, stopCalls, errors>>

Next ==
    \/ ClickStart \/ StartResolved \/ StartRejected
    \/ OrphanStartResolved \/ OrphanStartRejected
    \/ RecordProgress \/ RecordEnd
    \/ ClickPause \/ ClickResume \/ ClickStop \/ StopTimeout
    \/ ClickDelete \/ ModeSwitch
    \/ TogglePlayback \/ TimeUpdate \/ PlaybackFinish \/ Unmount
    \/ R_ClickStart \/ R_TimerTick \/ R_RecordProgress \/ R_RecordEnd
    \/ R_ClickPause \/ R_ClickResume \/ R_ClickStop \/ R_ClickRestart
    \/ R_ClickPlay \/ R_ClickPausePlayback \/ R_Interaction
    \/ R_AudioProcess \/ R_Finish \/ R_Unmount

Spec == Init /\ [][Next]_vars

\* Recorder alone, with the record plugin delivering every record-end it owes
InitRec == Init /\ mounted = "Recorder"

NextRec ==
    \/ R_ClickStart \/ R_TimerTick \/ R_RecordProgress \/ R_RecordEnd
    \/ R_ClickPause \/ R_ClickResume \/ R_ClickStop \/ R_ClickRestart
    \/ R_ClickPlay \/ R_ClickPausePlayback \/ R_Interaction
    \/ R_AudioProcess \/ R_Finish \/ R_Unmount

RecFairSpec == InitRec /\ [][NextRec]_vars /\ WF_vars(R_RecordEnd)

(***************************************************************************)
(* Claims                                                                  *)
(***************************************************************************)
Recording == {"recording", "paused"}
LimitMs == maxDuration * MsPerSec
\* the mounted component's session state
SessionState == IF App THEN recorderState ELSE r_mode

\* C1: in limited mode, in a recording run with no user command, the session
\* is finished within one progress tick of duration reaching the limit: once
\* a notification has brought duration to the limit or past it, no later
\* notification raises duration again.
C1_FinishedWithinOneTick ==
    [][(App /\ mode = LIMITED /\ untouched /\ duration >= LimitMs)
         => duration' <= duration]_vars

\* C2: in Recorder with a limit, whenever time is at or past the limit the
\* capture has been stopped, and from then on no step makes time grow.
C2_RecorderAutoFinalizes ==
    [][(Rec /\ r_maxDuration # NoLimit /\ r_time' >= r_maxDuration)
         => /\ capture' # "recording"
            /\ r_time >= r_maxDuration => r_time' <= r_time]_vars

\* C3: at most one deferred finalize is pending at a time and the plugin's
\* stopRecording is called at most once per recording cycle.
C3_FinalizeOncePerCycle ==
    App => (timeouts <= 1 /\ stopCalls <= 1)

\* C4: a rejected startRecording leaves recorderState, recordedUrl and
\* duration as they were, reports the error once, and from idle the session
\* stays idle with a new start allowed.
C4_StartFailureChangesNothing ==
    [][(App /\ last'.op \in {"startRejected", "orphanStartRejected"})
         => /\ UNCHANGED <<recorderState, recordedUrl, duration>>
            /\ errors' = errors + 1
            /\ recorderState = "idle" => StartAllowed']_vars

C4_Witness ==
    /\ App
    /\ last.op = "startRejected"
    /\ recorderState = "idle"
    /\ errors = 1

\* C5: in Recorder a failed plugin start leaves mode idle, starts no timer and
\* does not reset time.
C5_RecorderStartFailureChangesNothing ==
    [][(Rec /\ last'.op = "startRecordingFailed")
         => /\ r_mode' = "idle"
            /\ r_time' = r_time
            /\ UNCHANGED <<r_timerLive, r_leakedTimers>>]_vars

\* the step invokes a stopRecording handler
StopInvoked ==
    \/ last'.op = "stopRecording"
    \/ App /\ last'.op = "record-progress" /\ AutoStopDue(mode, capMs')
    \/ Rec /\ last'.op = "tick" /\ r_maxDuration # NoLimit /\ r_time' >= r_maxDuration

\* C6: a pause outside recording, a resume outside paused and a stop outside
\* recording/paused change no session state, queue no finalize and forward
\* nothing to the record plugin.
C6_HandlersGuardIllegalTransitions ==
    [][/\ (last'.op = "pauseRecording" /\ SessionState # "recording")
            => UNCHANGED <<recorderState, r_mode, capture>>
       /\ (last'.op = "resumeRecording" /\ SessionState # "paused")
            => UNCHANGED <<recorderState, r_mode, capture>>
       /\ (StopInvoked /\ SessionState \notin Recording)
            => UNCHANGED <<recorderState, r_mode, capture, timeouts, stopCalls>>
      ]_vars

\* C7: reset (deleteRecording, restart) invoked while recording or paused is
\* a no-op on the state, the elapsed time and the capture.
C7_ResetOnlyFromFinished ==
    [][(last'.op \in {"deleteRecording", "restart"} /\ SessionState \in Recording)
         => UNCHANGED <<recorderState, duration, r_mode, r_time, capture>>]_vars

\* C8: right after a reset the session is in its initial state: idle, no
\* artifact, elapsed time 0, playback position 0.
C8_ResetGivesInitialState ==
    /\ (App /\ last.op \in {"deleteRecording", "modeSwitch"})
         => /\ recorderState = "idle"
            /\ recordedUrl = Null
            /\ duration = 0
            /\ currentTime = 0
    /\ (Rec /\ last.op = "restart")
         => /\ r_mode = "idle"
            /\ r_blob = Null
            /\ r_time = 0
            /\ r_playbackTime = 0

C8_Witness ==
    /\ App
    /\ last.op = "deleteRecording"
    /\ last.from = "finished"
    /\ recorderState = "idle"
    /\ capture = "inactive"
    /\ recordEnds = 0

\* C9: while the session is idle or finished, only a reset (or the start that
\* leaves idle) changes the elapsed time.
C9_ElapsedFrozenOutsideRecording ==
    [][/\ (App /\ recorderState \in {"idle", "finished"} /\ duration' # duration)
            => last'.op \in {"deleteRecording", "modeSwitch", "startResolved",
                             "orphanStartResolved"}
       /\ (Rec /\ r_mode \in {"idle", "stopped", "playing"} /\ r_time' # r_time)
            => last'.op \in {"restart", "startRecording", "startRecordingFailed"}
      ]_vars

\* C10: the capture is active only while the session is recording or paused.
C10_CaptureOnlyWhileRecording ==
    /\ App => (PluginActive(capture) => recorderState \in Recording)
    /\ Rec => (PluginActive(capture) => r_mode \in Recording)

Finished == {"stopped", "playing"}

\* C11: in AudioRecorderApp the artifact is present exactly while the session
\* is finished: it is set at the transition into finished and cleared by
\* reset only.
C11_ArtifactIffFinished ==
    App => (recordedUrl # Null <=> recorderState = "finished")

\* C12: in Recorder the blob is present exactly while mode is stopped or
\* playing.
C12_BlobIffFinished ==
    Rec => (r_blob # Null <=> r_mode \in Finished)

C12_Witness ==
    /\ Rec
    /\ last.op = "restart"
    /\ last.from = "playing"
    /\ r_blob = Null
    /\ r_listeners > 0

\* C13: while a start awaits the device no second start is issued, and a
\* start that resolves makes the session recording only with the current
\* plugin capturing.
C13_OneStartInFlight ==
    [][/\ (App /\ last'.op = "startRecording")
            => pendingStarts + orphanStarts = 0
       /\ (App /\ last'.op \in {"startResolved", "orphanStartResolved"})
            => (recorderState' = "recording" => capture' = "recording")
      ]_vars

\* C15: once the component is unmounted none of its timers runs any more:
\* no interval tick of Recorder and no deferred stop of AudioRecorderApp.
C15_UnmountCancelsTimers ==
    [][~alive => last'.op \notin {"tick", "stopTimeout"}]_vars

NoTimer == ~r_timerLive /\ r_leakedTimers = 0

C16_OneTimerOnlyWhileRecording ==
    (Rec /\ r_maxDuration = NoLimit) =>
        /\ r_leakedTimers = 0
        /\ r_timerLive => r_mode = "recording"

C16_Witness ==
    /\ Rec
    /\ r_maxDuration = NoLimit
    /\ last.op = "resumeRecording"
    /\ r_mode = "recording"
    /\ r_timerLive
    /\ r_leakedTimers = 0
    /\ capture = "recording"

\* C17: in Recorder without a limit, no step taken while mode is and stays
\* "recording" lowers time.
C17_TimeMonotoneWhileRecording ==
    [][(Rec /\ r_maxDuration = NoLimit /\ r_mode = "recording" /\ r_mode' = "recording")
         => r_time' >= r_time]_vars

C19_PlaybackOnlyWhenFinished ==
    (App /\ last.op = "togglePlayback") => last.from = "finished"

\* C20: in AudioRecorderApp, the stop command is available whenever the
\* session is paused.
C20_StopAvailableWhilePaused ==
    (App /\ recorderState = "paused") => StopButtonRendered

\* C21: in AudioRecorderApp no two pairs that are not destroyed ever exist
\* together, also inside the effect a mode change runs, and while mounted
\* the refs name the pair constructed last, which is not destroyed.
C21_OnePairRefsNewest ==
    App => /\ Cardinality(wsPairs) <= 1
           /\ wsPeak <= 1
           /\ wsRef = 0
           /\ wsRef \in wsPairs

C21_Witness ==
    /\ App
    /\ last.op = "modeSwitch"
    /\ last.from = "recording"
    /\ mode = UNLIMITED
    /\ wsPairs = {0}
    /\ wsRef = 0

\* the steps a start command consists of
StartOps == {"startRecording", "startRecordingFailed", "startResolved",
             "startRejected", "orphanStartResolved", "orphanStartRejected"}

\* C22: in both components, a step taken in idle with no artifact, other
\* than a start, leaves the session idle and the artifact absent.
C22_IdleUntilNextStart ==
    [][/\ (App /\ recorderState = "idle" /\ recordedUrl = Null
             /\ last'.op \notin StartOps)
           => (recorderState' = "idle" /\ recordedUrl' = Null)
       /\ (Rec /\ r_mode = "idle" /\ r_blob = Null /\ last'.op \notin StartOps)
           => (r_mode' = "idle" /\ r_blob' = Null)]_vars

\* C23: in a mounted Recorder at most one "interaction" listener is
\* registered on the WaveSurfer instance.
C23_OneInteractionListener ==
    Rec => r_listeners <= 1

=============================================================================
